---- MODULE Spec2Model ----
(***************************************************************************)
(* Model of the Amazon SP-API override:                                    *)
(*   amazon_override/overrides/amazon_sp_api.py          (class SPAPI)     *)
(*   amazon_override/overrides/amazon_sp_api_settings.py (settings doc)    *)
(*                                                                         *)
(* Python values are encoded as follows.  An optional string is a string,  *)
(* with None as the sentinel value None.  A mapping (dict, JSON object) is *)
(* a set of <<key, value>> pairs with distinct keys.  An argument that may *)
(* or may not be a dict is a record [type, v].                             *)
(***************************************************************************)
EXTENDS Integers, Sequences, FiniteSets, TLC

VARIABLES
    access_token,   \* SPAPI._access_token of the one client instance
    aws,            \* SPAPI.iam_arn / aws_access_key / aws_secret_key
    base_uri,       \* BASE_URI of the instance's class
    pc,             \* per thread: "idle", "token_post", "token_return", "resource_req"
    call,           \* per thread: the call it is inside (or the last one)
    ret,            \* per thread: outcome of its last completed call
    sent,           \* per thread: the resource request of the current call
    posts,          \* per thread: token POSTs sent by the current/last call
    reqs,           \* per thread: resource requests sent by that call
    resp,           \* per thread: the responses that call received
    db,             \* settings records as stored (each one validated)
    lastValidate,   \* the last validate run: document in, outcome, document out
    orderCalls,     \* get_orders calls of the last scheduler run, per record
    sched,          \* schedule_get_order_details: position, amz_settings, records left
    jobs,           \* RQ jobs per job name: how many queued, how many started
    wpc,            \* per web request: position inside get_order_details
    wmsg            \* per web request: the message it showed last

clientVars == <<access_token, aws, base_uri, pc, call, ret, sent, posts, reqs, resp>>
settingsVars == <<db, lastValidate, orderCalls, sched>>
jobVars == <<jobs, wpc, wmsg>>
vars == <<clientVars, settingsVars, jobVars>>

-----------------------------------------------------------------------------
(* Python values *)

None == "<None>"

\* Python truthiness of an optional string: None and "" are falsy.
Truthy(v) == v # None /\ v # ""

PyNone == [type |-> "NoneType", v |-> {}]
PyDict(items) == [type |-> "dict", v |-> items]
PyList(items) == [type |-> "list", v |-> items]

\* dict.get(key): the value stored under key, None when the key is absent.
Get(obj, key) ==
    IF \E p \in obj : p[1] = key
    THEN (CHOOSE p \in obj : p[1] = key)[2]
    ELSE None

Keys(obj) == {p[1] : p \in obj}

\* All mappings from a subset of ks to values in vs.
Mappings(ks, vs) ==
    UNION {{{<<k, f[k]>> : k \in S} : f \in [S -> vs]} : S \in SUBSET ks}

\* str(n) for a natural number.
Digit(d) == <<"0", "1", "2", "3", "4", "5", "6", "7", "8", "9">>[d + 1]

RECURSIVE Str(_)
Str(n) == IF n < 10 THEN Digit(n) ELSE Str(n \div 10) \o Digit(n % 10)

-----------------------------------------------------------------------------
(* The client: class SPAPI *)

Threads == {"t1", "t2"}

AUTH_URL == "https://api.amazon.com/auth/o2/token"

\* Util.get_marketplace_data("US")[1], the endpoint of the default country.
Endpoint == "https://sellingpartnerapi-na.amazon.com"

\* BASE_URI of SPAPI, Finances, Orders and CatalogItems.
BaseUris == {"/", "/finances/v0/", "/orders/v0/orders", "/catalog/v0"}

\* __init__: the legacy credentials are kept only when all three are given.
__init__(iam_arn, aws_access_key, aws_secret_key) ==
    IF Truthy(iam_arn) /\ Truthy(aws_access_key) /\ Truthy(aws_secret_key)
    THEN [iam_arn |-> iam_arn, aws_access_key |-> aws_access_key,
          aws_secret_key |-> aws_secret_key]
    ELSE [iam_arn |-> None, aws_access_key |-> None, aws_secret_key |-> None]

\* Outcomes of a call.
NoRet ==
    [kind |-> "none", value |-> None, headers |-> {}, json |-> {},
     error |-> None, error_description |-> None]
Return(value) == [NoRet EXCEPT !.kind = "return", !.value = value]
ReturnHeaders(h) == [NoRet EXCEPT !.kind = "return", !.headers = h]
ReturnJson(j) == [NoRet EXCEPT !.kind = "return", !.json = j]
SPAPIError(error, error_description) ==
    [NoRet EXCEPT !.kind = "raise", !.error = error,
                  !.error_description = error_description]

NoCall ==
    [op |-> "none", method |-> "", suffix |-> "", params |-> PyNone, data |-> PyNone]
Op(name) == [NoCall EXCEPT !.op = name]
NoReq ==
    [method |-> "", url |-> "", params |-> PyNone, json |-> PyNone, headers |-> {}]
NoTokenResp == [status |-> 0, body |-> {}]
NoResourceResp == [status |-> 0, text |-> ""]
NoResp == [token |-> NoTokenResp, resource |-> NoResourceResp]

\* Util.remove_empty: the mapping without its empty or absent values.
remove_empty(m) == {p \in m : Truthy(p[2])}

\* make_request, lines 103-104 and 105-106.
StripParams(params) ==
    IF params.type = "dict" THEN PyDict(remove_empty(params.v)) ELSE params
\* Variant: the JSON body is sent as given.
StripDataSkipped(data) == data
StripData(data) ==
    IF data.type = "dict" THEN PyDict(remove_empty(data.v)) ELSE data

\* Variant: "if self._access_token is not None".
CacheHitNotNone(tok) == tok # None

\* get_access_token, line 60: "if self._access_token".
CacheHit(tok) == Truthy(tok)

\* Variant: every status below 400 counts as success.
TokenStatusOkBelow400(status) == status < 400

\* get_access_token, line 77.
TokenStatusOk(status) == status = 200

\* Variant: "> 400".
IsErrorStatusAbove400(status) == status > 400

\* make_request, line 118.
IsErrorStatus(status) == status >= 400

\* Variant: the headers of the base class, which adds the AWS security token
\* when the legacy credentials are set.
get_headers_signed(tok) ==
    {<<"x-amz-access-token", tok>>,
     <<"User-Agent", "python-amazon-mws/0.0.1 (Language=Python)">>,
     <<"Content-Type", "application/json">>}
        \cup (IF aws.iam_arn # None
              THEN {<<"x-amz-security-token", aws.aws_access_key>>}
              ELSE {})

\* get_headers: the header map built around the token get_access_token gave.
get_headers(tok) ==
    {<<"x-amz-access-token", tok>>,
     <<"User-Agent", "python-amazon-mws/0.0.1 (Language=Python)">>,
     <<"Content-Type", "application/json">>}

\* make_request, line 108.
Url(suffix) == Endpoint \o base_uri \o suffix

\* make_request, lines 103-116: the request handed to requests.request.
BuildRequest(c, tok) ==
    [method |-> c.method, url |-> Url(c.suffix), params |-> StripParams(c.params),
     json |-> StripData(c.data), headers |-> get_headers(tok)]

\* response.json() of a resource response whose text is a JSON document.
json(text) ==
    CASE text = "{}" -> {}
      [] text = "{\"payload\": \"ok\"}" -> {<<"payload", "ok">>}
      [] text = "{\"payload\": \"\"}" -> {<<"payload", "">>}
      [] OTHER -> {}

JsonTexts == {"{}", "{\"payload\": \"ok\"}", "{\"payload\": \"\"}"}
IsJson(text) == text \in JsonTexts

\* response.json() raises on a text that is no JSON document.
JSONDecodeError(text) ==
    [NoRet EXCEPT !.kind = "raise", !.error = "JSONDecodeError",
                  !.error_description = text]

\* make_request, lines 118-124: the outcome for the response r.
ResourceOutcome(r) ==
    IF IsErrorStatus(r.status)
    THEN SPAPIError("HTTP " \o Str(r.status), r.text)
    ELSE IF IsJson(r.text)
    THEN ReturnJson(json(r.text))
    ELSE JSONDecodeError(r.text)

\* What follows in call c of thread t once get_access_token has returned tok,
\* having sent n token POSTs and received the token response tr.
WithToken(t, c, tok, n, tr) ==
    /\ posts' = [posts EXCEPT ![t] = n]
    /\ resp' = [resp EXCEPT ![t] = [token |-> tr, resource |-> NoResourceResp]]
    /\ call' = [call EXCEPT ![t] = c]
    /\ IF c.op = "make_request"
       THEN /\ pc' = [pc EXCEPT ![t] = "resource_req"]
            /\ sent' = [sent EXCEPT ![t] = BuildRequest(c, tok)]
            /\ reqs' = [reqs EXCEPT ![t] = 1]
            /\ ret' = [ret EXCEPT ![t] = NoRet]
       ELSE /\ pc' = [pc EXCEPT ![t] = "idle"]
            /\ sent' = [sent EXCEPT ![t] = NoReq]
            /\ reqs' = [reqs EXCEPT ![t] = 0]
            /\ ret' = [ret EXCEPT ![t] =
                          IF c.op = "get_headers"
                          THEN ReturnHeaders(get_headers(tok))
                          ELSE Return(tok)]

\* Variant: the error of the token endpoint is swallowed and the call goes on
\* without a token.
TokenFailureSwallowed(t, r) ==
    /\ WithToken(t, call[t], None, posts[t], r)
    /\ UNCHANGED access_token

\* A non-200 token response inside call c: SPAPIError is raised and propagates
\* through get_headers and make_request, which catch nothing.
TokenFailure(t, r) ==
    /\ pc' = [pc EXCEPT ![t] = "idle"]
    /\ ret' = [ret EXCEPT ![t] =
                  SPAPIError(Get(r.body, "error"), Get(r.body, "error_description"))]
    /\ resp' = [resp EXCEPT ![t] = [token |-> r, resource |-> NoResourceResp]]
    /\ call' = [call EXCEPT ![t] = Op(call[t].op)]
    /\ UNCHANGED <<access_token, sent, posts, reqs>>

\* Thread t enters call c and runs up to its first network call: the cache
\* check of get_access_token, then either the rest of the call or the POST.
BeginCall(t, c) ==
    /\ pc[t] = "idle"
    /\ IF CacheHit(access_token)
       THEN WithToken(t, c, access_token, 0, NoTokenResp)
       ELSE /\ pc' = [pc EXCEPT ![t] = "token_post"]
            /\ call' = [call EXCEPT ![t] = c]
            /\ ret' = [ret EXCEPT ![t] = NoRet]
            /\ sent' = [sent EXCEPT ![t] = NoReq]
            /\ posts' = [posts EXCEPT ![t] = 1]
            /\ reqs' = [reqs EXCEPT ![t] = 0]
            /\ resp' = [resp EXCEPT ![t] = NoResp]
    /\ UNCHANGED <<access_token, aws, base_uri, settingsVars, jobVars>>

CallGetAccessToken(t) == BeginCall(t, Op("get_access_token"))

CallGetHeaders(t) == BeginCall(t, Op("get_headers"))

CallMakeRequest(t, method, suffix, params, data) ==
    BeginCall(t, [op |-> "make_request", method |-> method, suffix |-> suffix,
                  params |-> params, data |-> data])

\* The token endpoint answers the POST of thread t with r (lines 74-85). On
\* 200 the token is stored (line 78); line 79 reads it back in a later step.
TokenResponse(t, r) ==
    /\ pc[t] = "token_post"
    /\ IF TokenStatusOk(r.status)
       THEN /\ access_token' = Get(r.body, "access_token")
            /\ pc' = [pc EXCEPT ![t] = "token_return"]
            /\ resp' = [resp EXCEPT ![t] = [token |-> r, resource |-> NoResourceResp]]
            /\ UNCHANGED <<call, ret, sent, posts, reqs>>
       ELSE TokenFailure(t, r)
    /\ UNCHANGED <<aws, base_uri, settingsVars, jobVars>>

\* Line 79, "return self._access_token", and the rest of the call.
TokenReturn(t) ==
    /\ pc[t] = "token_return"
    /\ WithToken(t, call[t], access_token, posts[t], resp[t].token)
    /\ UNCHANGED <<access_token, aws, base_uri, settingsVars, jobVars>>

\* The resource endpoint answers the request of thread t with r (lines 118-124).
ResourceResponse(t, r) ==
    /\ pc[t] = "resource_req"
    /\ pc' = [pc EXCEPT ![t] = "idle"]
    /\ ret' = [ret EXCEPT ![t] = ResourceOutcome(r)]
    /\ resp' = [resp EXCEPT ![t].resource = r]
    /\ call' = [call EXCEPT ![t] = Op("make_request")]
    /\ sent' = [sent EXCEPT ![t] = NoReq]
    /\ UNCHANGED <<access_token, aws, base_uri, posts, reqs, settingsVars, jobVars>>

-----------------------------------------------------------------------------
(* The settings document: class AmazonSPAPISettings *)

Names == {"s1", "s2"}

PyInt(n) == [type |-> "int", n |-> n]
NoInt == [type |-> "NoneType", n |-> 0]

\* "not x" for an optional integer: None and 0 are falsy.
Falsy(x) == x.type = "NoneType" \/ x.n = 0

Doc(is_active, enable_sync, max_retry_limit) ==
    [is_active |-> is_active, enable_sync |-> enable_sync,
     max_retry_limit |-> max_retry_limit]

\* A record as it is first stored: inactive, not synced, one retry.
NewDoc == Doc(0, 0, PyInt(1))

\* What the validators outside this file decide: validate_amazon_fields_map,
\* validate_after_date and validate_amazon_sp_api_credentials pass or throw.
Exts == [fields_map : BOOLEAN, after_date : BOOLEAN, credentials : BOOLEAN]

Ok(doc) == [ok |-> TRUE, doc |-> doc, custom_fields |-> doc.is_active = 1]
Throw(doc) == [ok |-> FALSE, doc |-> doc, custom_fields |-> FALSE]

\* validate, line 26.
IsActive(doc) == doc.is_active = 1

\* Variant: an inactive record keeps enable_sync.
ClearSyncSkipped(doc) == doc

\* validate, line 30.
ClearSync(doc) == [doc EXCEPT !.enable_sync = 0]

\* validate, line 34.
RetryLimitTooHigh(limit) == limit.n > 5

\* validate (lines 21-35): the outcome and the document as validate leaves it.
validate(doc, ext) ==
    IF ~ext.fields_map \/ ~ext.after_date
    THEN Throw(doc)
    ELSE IF IsActive(doc) /\ ~ext.credentials
    THEN Throw(doc)
    ELSE LET d == IF IsActive(doc) THEN doc ELSE ClearSync(doc)
         IN  IF Falsy(d.max_retry_limit)
             THEN Ok([d EXCEPT !.max_retry_limit = PyInt(1)])
             ELSE IF RetryLimitTooHigh(d.max_retry_limit)
             THEN Throw(d)
             ELSE Ok(d)

NoValidate == [name |-> "", doc_in |-> NewDoc, ok |-> TRUE, doc_out |-> NewDoc]

\* Record n is saved as doc: validate runs, and the record is stored only if
\* validate does not throw.
Save(n, doc, ext) ==
    /\ LET r == validate(doc, ext)
       IN  /\ lastValidate' =
                  [name |-> n, doc_in |-> doc, ok |-> r.ok, doc_out |-> r.doc]
           /\ db' = IF r.ok THEN [db EXCEPT ![n] = r.doc] ELSE db
    /\ UNCHANGED <<orderCalls, sched, clientVars, jobVars>>

\* schedule_get_order_details, lines 79-83: the filter of frappe.get_all.
Matches(doc) == doc.is_active = 1 /\ doc.enable_sync = 1

SchedIdle == [at |-> "idle", amz_settings |-> {}, todo |-> {}]

\* The hourly hook starts: it queries the records to sync (lines 79-83).
ScheduleQuery ==
    /\ sched.at = "idle"
    /\ LET found == {n \in Names : Matches(db[n])}
       IN  sched' = [at |-> "loop", amz_settings |-> found, todo |-> found]
    /\ orderCalls' = [n \in Names |-> 0]
    /\ UNCHANGED <<db, lastValidate, clientVars, jobVars>>

\* One turn of the loop (lines 85-86): get_orders for the next record.
ScheduleGetOrders(n) ==
    /\ sched.at = "loop"
    /\ n \in sched.todo
    /\ orderCalls' = [orderCalls EXCEPT ![n] = @ + 1]
    /\ sched' = [sched EXCEPT !.todo = @ \ {n}]
    /\ UNCHANGED <<db, lastValidate, clientVars, jobVars>>

\* The loop is over and the hook returns.
ScheduleDone ==
    /\ sched.at = "loop"
    /\ sched.todo = {}
    /\ sched' = [sched EXCEPT !.at = "idle"]
    /\ UNCHANGED <<db, lastValidate, orderCalls, clientVars, jobVars>>

-----------------------------------------------------------------------------
(* get_order_details and the RQ jobs it enqueues *)

Requests == {"w1", "w2"}

\* get_order_details, line 54.
JobName(n) == "Get Amazon Orders - " \o n

JobNames == {JobName(n) : n \in Names}

\* Line 56: some job of that name is queued or started.
JobPending(job_name) == jobs[job_name].queued + jobs[job_name].started > 0

WIdle == [at |-> "idle", name |-> ""]

\* get_order_details up to the job query (lines 53-57 and 69-72), called on
\* the record n as request w loaded it.
GetOrderDetailsCheck(w, n) ==
    /\ wpc[w].at = "idle"
    /\ IF IsActive(db[n])
       THEN IF JobPending(JobName(n))
            THEN /\ wmsg' = [wmsg EXCEPT ![w] =
                     "The order details are currently being fetched in the background."]
                 /\ UNCHANGED wpc
            ELSE /\ wpc' = [wpc EXCEPT ![w] = [at |-> "enqueue", name |-> n]]
                 /\ wmsg' = [wmsg EXCEPT ![w] = ""]
       ELSE /\ wmsg' = [wmsg EXCEPT ![w] = "Please enable the Amazon SP API Settings"]
            /\ UNCHANGED wpc
    /\ UNCHANGED <<jobs, clientVars, settingsVars>>

\* frappe.enqueue and the message after it (lines 59-68).
GetOrderDetailsEnqueue(w) ==
    /\ wpc[w].at = "enqueue"
    /\ jobs' = [jobs EXCEPT ![JobName(wpc[w].name)].queued = @ + 1]
    /\ wmsg' = [wmsg EXCEPT ![w] = "Order details will be fetched in the background."]
    /\ wpc' = [wpc EXCEPT ![w] = WIdle]
    /\ UNCHANGED <<clientVars, settingsVars>>

\* A worker takes a queued job.
JobStart(j) ==
    /\ jobs[j].queued > 0
    /\ jobs' = [jobs EXCEPT ![j] = [queued |-> @.queued - 1, started |-> @.started + 1]]
    /\ UNCHANGED <<wpc, wmsg, clientVars, settingsVars>>

\* A started job ends (finished or failed).
JobEnd(j) ==
    /\ jobs[j].started > 0
    /\ jobs' = [jobs EXCEPT ![j].started = @ - 1]
    /\ UNCHANGED <<wpc, wmsg, clientVars, settingsVars>>

-----------------------------------------------------------------------------
(* Inputs *)

Methods == {"GET"}
Suffixes == {"", "/ASIN123"}

\* The example of the documentation: {"a": "", "b": None, "c": "x"}.
ExampleMapping == {<<"a", "">>, <<"b", None>>, <<"c", "x">>}

\* Arguments of make_request: no argument, a list of pairs (not a mapping),
\* every mapping of one key, every mapping of two keys to strings, and the
\* example.
ArgValues ==
    {PyNone, PyList({<<"a", "">>})}
        \cup {PyDict(m) : m \in Mappings({"b"}, {"", None, "x"})}
        \cup {PyDict(m) : m \in Mappings({"a", "c"}, {"", "x"})}
        \cup {PyDict(ExampleMapping)}

\* The token endpoint answers with a JSON object; any of its fields may be
\* missing, null or empty, whatever the status.
TokenStatuses == {200, 201, 401, 503}
TokenBodies ==
    {{}, {<<"access_token", "T1">>}, {<<"access_token", "T2">>},
     {<<"access_token", "">>}, {<<"access_token", None>>},
     {<<"error", "invalid_grant">>, <<"error_description", "bad token">>},
     {<<"error", "invalid_client">>},
     {<<"access_token", "T1">>, <<"error_description", "ignored">>}}
TokenResponses == [status : TokenStatuses, body : TokenBodies]

\* The resource endpoint answers a status below 400 with a JSON document and
\* an error status with any text.
ResourceStatuses == {200, 399, 400, 404, 500}
ErrorTexts == JsonTexts \cup {"not found", ""}
ResourceResponses ==
    {r \in [status : ResourceStatuses, text : ErrorTexts] :
        r.status < 400 => r.text \in JsonTexts}

MaxRetryInput == 6
RetryInputs == {NoInt} \cup {PyInt(n) : n \in -MaxRetryInput .. MaxRetryInput}
Flags == {0, 1}

-----------------------------------------------------------------------------
(* Specifications *)

ClientStart ==
    /\ access_token = None
    /\ pc = [t \in Threads |-> "idle"]
    /\ call = [t \in Threads |-> NoCall]
    /\ ret = [t \in Threads |-> NoRet]
    /\ sent = [t \in Threads |-> NoReq]
    /\ posts = [t \in Threads |-> 0]
    /\ reqs = [t \in Threads |-> 0]
    /\ resp = [t \in Threads |-> NoResp]

\* The client as constructed, with or without the legacy credentials.
ClientInit ==
    /\ ClientStart
    /\ \E a \in {None, "arn"}, k \in {None, "key"}, s \in {None, "secret"} :
           aws = __init__(a, k, s)
    /\ base_uri \in BaseUris

ClientFixed ==
    /\ ClientStart
    /\ aws = __init__(None, None, None)
    /\ base_uri = "/"

SettingsInit ==
    /\ db = [n \in Names |-> NewDoc]
    /\ lastValidate = NoValidate
    /\ orderCalls = [n \in Names |-> 0]
    /\ sched = SchedIdle

JobsInit ==
    /\ jobs = [j \in JobNames |-> [queued |-> 0, started |-> 0]]
    /\ wpc = [w \in Requests |-> WIdle]
    /\ wmsg = [w \in Requests |-> ""]

\* One caller uses the client instance, one call after the other.
Init == ClientInit /\ SettingsInit /\ JobsInit

Next ==
    \/ CallGetAccessToken("t1")
    \/ CallGetHeaders("t1")
    \/ \E m \in Methods, x \in Suffixes, p \in ArgValues, d \in ArgValues :
           CallMakeRequest("t1", m, x, p, d)
    \/ \E r \in TokenResponses : TokenResponse("t1", r)
    \/ TokenReturn("t1")
    \/ \E r \in ResourceResponses : ResourceResponse("t1", r)

Spec == Init /\ [][Next]_vars

\* The host shares one client instance between two threads.
SharedTokenResponses ==
    {r \in TokenResponses :
        /\ r.status \in {200, 401}
        /\ r.body \in {{}, {<<"access_token", "T1">>}, {<<"access_token", "T2">>},
                       {<<"access_token", "">>}, {<<"error", "invalid_client">>}}}
SharedResourceResponses ==
    {r \in ResourceResponses : r.status \in {200, 404} /\ r.text \in {"{}", "not found"}}

InitShared == ClientFixed /\ SettingsInit /\ JobsInit

NextShared ==
    \E t \in Threads :
        \/ CallGetAccessToken(t)
        \/ CallGetHeaders(t)
        \/ CallMakeRequest(t, "GET", "", PyNone, PyDict({<<"a", "">>}))
        \/ \E r \in SharedTokenResponses : TokenResponse(t, r)
        \/ TokenReturn(t)
        \/ \E r \in SharedResourceResponses : ResourceResponse(t, r)

SpecShared == InitShared /\ [][NextShared]_vars

\* Records are saved, with every retry limit, by users.
InitValidate == ClientFixed /\ SettingsInit /\ JobsInit

NextValidate ==
    \E a \in Flags, e \in Flags, l \in RetryInputs, ext \in Exts :
        Save("s1", Doc(a, e, l), ext)

SpecValidate == InitValidate /\ [][NextValidate]_vars

\* Records are saved while the hourly hook runs.
SmallRetryInputs == {NoInt, PyInt(3), PyInt(9)}

InitSettings == ClientFixed /\ SettingsInit /\ JobsInit

NextSettings ==
    \/ \E n \in Names, a \in Flags, e \in Flags, l \in SmallRetryInputs, ext \in Exts :
           Save(n, Doc(a, e, l), ext)
    \/ ScheduleQuery
    \/ \E n \in Names : ScheduleGetOrders(n)
    \/ ScheduleDone

SpecSettings == InitSettings /\ [][NextSettings]_vars

\* Web requests call get_order_details while workers run the jobs and users
\* switch the records on and off.
AllPass == [fields_map |-> TRUE, after_date |-> TRUE, credentials |-> TRUE]

InitJobs == ClientFixed /\ SettingsInit /\ JobsInit

NextJobs ==
    \/ \E n \in Names, a \in Flags : Save(n, Doc(a, 0, PyInt(1)), AllPass)
    \/ \E w \in Requests, n \in Names : GetOrderDetailsCheck(w, n)
    \/ \E w \in Requests : GetOrderDetailsEnqueue(w)
    \/ \E j \in JobNames : JobStart(j)
    \/ \E j \in JobNames : JobEnd(j)

SpecJobs == InitJobs /\ [][NextJobs]_vars

-----------------------------------------------------------------------------
(* Properties *)

\* Thread t moves in this step.
Moves(t) ==
    <<pc[t], call[t], ret[t], sent[t], posts[t], reqs[t], resp[t]>>'
        # <<pc[t], call[t], ret[t], sent[t], posts[t], reqs[t], resp[t]>>

\* Thread t has completed a get_access_token call that sent the POST and got
\* HTTP 200 for it, so that it returned without an exception.
FirstCallSucceeded(t) ==
    /\ pc[t] = "idle"
    /\ call[t].op = "get_access_token"
    /\ ret[t].kind = "return"
    /\ posts[t] = 1
    /\ resp[t].token.status = 200

\* C1: token caching idempotence. Once a get_access_token call has completed
\* successfully (HTTP 200, no exception), whatever the token endpoint
\* answered, the next get_access_token call of the same caller on the same
\* instance sends no POST and returns the same value.
C1_TokenCachingIdempotence ==
    [][\A t \in Threads :
          (FirstCallSucceeded(t) /\ Moves(t) /\ call'[t].op = "get_access_token")
              => /\ pc'[t] = "idle"
                 /\ posts'[t] = 0
                 /\ ret'[t].kind = "return"
                 /\ ret'[t].value = ret[t].value]_vars

\* Thread t has completed a get_access_token call that had to ask the token
\* endpoint.
TokenCallDone(t) ==
    /\ pc[t] = "idle"
    /\ call[t].op = "get_access_token"
    /\ resp[t].token # NoTokenResp

RequestDone(t) ==
    /\ pc[t] = "idle"
    /\ call[t].op = "make_request"
    /\ resp[t].resource # NoResourceResp

ExactlyThreeHeaders(h, tok) ==
    /\ Keys(h) = {"x-amz-access-token", "User-Agent", "Content-Type"}
    /\ Cardinality(h) = 3
    /\ Get(h, "x-amz-access-token") = tok
    /\ Get(h, "User-Agent") = "python-amazon-mws/0.0.1 (Language=Python)"
    /\ Get(h, "Content-Type") = "application/json"

\* C4: every header map get_headers returns, and so every resource request
\* make_request sends, has exactly the keys x-amz-access-token (the value
\* get_access_token returned), User-Agent and Content-Type, also when the
\* client was constructed with all three legacy credentials.
C4_ExactlyThreeHeaders ==
    \A t \in Threads :
        /\ (pc[t] = "idle" /\ call[t].op = "get_headers" /\ ret[t].kind = "return")
               => ExactlyThreeHeaders(ret[t].headers, access_token)
        /\ pc[t] = "resource_req"
               => ExactlyThreeHeaders(sent[t].headers, access_token)

\* A request is in flight from a client that holds all three legacy
\* credentials.
C4_Witness ==
    /\ aws.iam_arn = "arn" /\ aws.aws_access_key = "key" /\ aws.aws_secret_key = "secret"
    /\ pc["t1"] = "resource_req"
    /\ Get(sent["t1"].headers, "x-amz-access-token") = "T1"

\* The argument x as the documentation says it is sent: a mapping without
\* the entries whose value is "" or None, anything else as it is.
Stripped(x) ==
    IF x.type = "dict"
    THEN [type |-> "dict", v |-> {p \in x.v : p[2] # "" /\ p[2] # None}]
    ELSE x

\* C5: the query parameters and the JSON body make_request sends are the
\* params and data arguments, each, when it is a mapping, without the entries
\* whose value is "" or None and with every other entry unchanged.
C5_EmptyValuesStripped ==
    \A t \in Threads :
        pc[t] = "resource_req" =>
            /\ sent[t].params = Stripped(call[t].params)
            /\ sent[t].json = Stripped(call[t].data)
            /\ call[t].params = PyDict(ExampleMapping)
                   => sent[t].params = PyDict({<<"c", "x">>})
            /\ call[t].data = PyDict(ExampleMapping)
                   => sent[t].json = PyDict({<<"c", "x">>})
            /\ call[t].method = sent[t].method

\* The example is given as params and as data, and sent stripped.
C5_Witness ==
    /\ pc["t1"] = "resource_req"
    /\ call["t1"].params = PyDict(ExampleMapping)
    /\ call["t1"].data = PyDict(ExampleMapping)
    /\ sent["t1"].params = PyDict({<<"c", "x">>})
    /\ sent["t1"].json = PyDict({<<"c", "x">>})

\* C6: nothing serialises the threads that share an instance. Whether a
\* thread entering get_access_token (directly or through get_headers or
\* make_request) sends the refresh-token POST depends on the cached token
\* alone, never on the other threads: with no token cached it sends the POST
\* even while another thread's POST is in flight.
C6_NoLockOnTokenRefresh ==
    [][\A t \in Threads :
          (pc[t] = "idle" /\ Moves(t) /\ ~Truthy(access_token))
              => pc'[t] = "token_post" /\ posts'[t] = 1]_vars

\* Both threads have passed the cache check and neither has stored a token:
\* two refresh-token POSTs are in flight for the one instance.
C6_Witness ==
    /\ pc["t1"] = "token_post"
    /\ pc["t2"] = "token_post"
    /\ ~Truthy(access_token)

\* C7: the order-fetch job is idempotent by name. Across any interleaving of
\* get_order_details calls and job status changes, at most one job of a name
\* is queued or started at any time.
C7_AtMostOneJobPerName ==
    \A j \in JobNames : jobs[j].queued + jobs[j].started <= 1

\* C8: in every make_request call the token is obtained, from the cache or by
\* the token POST, before the resource request is sent; while the token is
\* being fetched no resource request has been sent; a request that is sent
\* carries the x-amz-access-token header with the value get_access_token
\* returned; and when get_access_token fails, make_request fails with that
\* error and has sent no resource request.
C8_TokenBeforeRequest ==
    \A t \in Threads :
        /\ pc[t] \in {"token_post", "token_return"}
               => reqs[t] = 0 /\ sent[t] = NoReq
        /\ reqs[t] = 1
               => /\ call[t].op = "make_request"
                  /\ \/ posts[t] = 0 /\ resp[t].token = NoTokenResp
                     \/ posts[t] = 1 /\ resp[t].token.status = 200
        /\ pc[t] = "resource_req"
               => /\ "x-amz-access-token" \in Keys(sent[t].headers)
                  /\ Get(sent[t].headers, "x-amz-access-token") = access_token
        /\ (pc[t] = "idle" /\ call[t].op = "make_request"
                /\ resp[t].token.status \notin {0, 200})
               => /\ ret[t].kind = "raise"
                  /\ ret[t].error = Get(resp[t].token.body, "error")
                  /\ ret[t].error_description =
                         Get(resp[t].token.body, "error_description")
                  /\ reqs[t] = 0
                  /\ resp[t].resource = NoResourceResp

\* make_request has failed with the error of the token endpoint, and no
\* resource request was sent.
C8_Witness ==
    /\ pc["t1"] = "idle"
    /\ call["t1"].op = "make_request"
    /\ resp["t1"].token.status = 401
    /\ ret["t1"].kind = "raise"
    /\ ret["t1"].error = "invalid_grant"
    /\ reqs["t1"] = 0

\* The hook has called get_orders for every record it found.
LoopOver == sched.at = "loop" /\ sched.todo = {}

Validated == lastValidate.name # ""

\* C10: for every integer value of max_retry_limit, validate either fails or
\* leaves max_retry_limit between 1 and 5 inclusive; an unset or zero value
\* becomes 1.
C10_RetryLimitBetween1And5 ==
    (Validated /\ lastValidate.ok)
        => /\ lastValidate.doc_out.max_retry_limit.type = "int"
           /\ lastValidate.doc_out.max_retry_limit.n >= 1
           /\ lastValidate.doc_out.max_retry_limit.n <= 5
           /\ Falsy(lastValidate.doc_in.max_retry_limit)
                  => lastValidate.doc_out.max_retry_limit.n = 1

====
